---- MODULE Spec2Model ----
(***************************************************************************)
(* TableIdentifierReplacer (table_identifier_replacer.py): replace(sql)    *)
(* parses the SQL text, walks the parsed tree with Expression.transform,   *)
(* rebuilds every Table node that has a db and a name from the triple the  *)
(* handler returns, and renders the tree.                                  *)
(*                                                                         *)
(* A tree is a sequence of nodes in pre-order; each node records its kind, *)
(* the index of its parent (0 for the root), its args and its comments.    *)
(* An optional value is a sequence: <<>> is Python's None, <<v>> is v.     *)
(***************************************************************************)
EXTENDS Naturals, Sequences, FiniteSets

VARIABLES handler, policy, used, pc, sql, parsed, expression, pos, calls,
          thrown, result

vars == <<handler, policy, used, pc, sql, parsed, expression, pos, calls,
          thrown, result>>

(***************************************************************************)
(* handler     self.handler                                                *)
(* policy      the handler given to the constructor                        *)
(* used        the rewriter has served a call before                       *)
(* pc          "idle", "transform", "done" (replace returned) or "failed"  *)
(*             (replace raised)                                            *)
(* sql         the argument of the running call, as the parser takes it    *)
(* parsed      the tree sqlglot.parse_one returned                         *)
(* expression  the tree expression.transform is rewriting                  *)
(* pos         the node the walk of transform visits next                  *)
(* calls       the calls of the handler in the running call, in order:     *)
(*             the node they were made for and their arguments             *)
(* thrown      the exception raised inside replace, and by whom            *)
(* result      what reaches the caller: a string or an exception           *)
(***************************************************************************)

\* Largest number of nodes of a parsed tree.
MaxNodes == 4

None == <<>>
Some(v) == <<v>>

\* exp.Identifier(this=..., quoted=...)
Identifier(this, quoted) == [this |-> this, quoted |-> quoted]

\* Expression.name of an optional identifier: `x.name if x else None`
NameOf(ident) == IF ident # None THEN Some(ident[1].this) ELSE None

----------------------------------------------------------------------------
(* The handlers a rewriter is constructed with.  A handler is a pure       *)
(* function of the three optional texts; it returns a triple or raises.    *)

New(text) == "new_" \o text

Returned(c, d, n) ==
    [raised |-> FALSE, value |-> <<c, d, n>>,
     exc |-> [type |-> "", msg |-> "", cause |-> <<>>]]
Raised(type, msg) ==
    [raised |-> TRUE, value |-> <<>>,
     exc |-> [type |-> type, msg |-> msg, cause |-> <<>>]]

Handlers == {"get_handler", "get_catalog_handler", "absent",
             "raise_runtime", "raise_parse"}

\* self.handler(orig_catalog, orig_db, orig_name); like the handlers of the
\* tests, each returns its arguments when there is no db
CallHandler(h, c, d, n) ==
    IF d = None \/ n = None THEN Returned(c, d, n)
    ELSE CASE h = "get_handler" -> Returned(c, Some(New(d[1])), n)
           [] h = "get_catalog_handler" ->
                Returned(IF c = None THEN Some("new_catalog") ELSE Some(New(c[1])),
                         Some(New(d[1])), n)
           [] h = "absent" -> Returned(None, None, None)
           [] h = "raise_runtime" ->
                IF c = None THEN Returned(None, None, Some(New(n[1])))
                ELSE Raised("RuntimeError", "boom")
           [] h = "raise_parse" ->
                IF c = None THEN Returned(None, Some(New(d[1])), None)
                ELSE Raised("ParseError", "boom")

----------------------------------------------------------------------------
(* The trees sqlglot.parse_one can hand to replace.                        *)

Quoted == {TRUE, FALSE}

TableArgs(catalog, db, this, alias) ==
    [catalog |-> catalog, db |-> db, this |-> this, alias |-> alias]

\* Table nodes with a db and a name: [catalog.]db.t, each part quoted or not.
QualifiedTables ==
    {TableArgs(c, Some(Identifier("d", qd)), Some(Identifier("t", qt)), None) :
        c \in {None} \cup {Some(Identifier("c", qc)) : qc \in Quoted},
        qd \in Quoted, qt \in Quoted}

\* Table nodes without a db (a bare name, here one that is also the text of
\* a database) or without a name.
BareTables ==
    {TableArgs(None, None, Some(Identifier("d", q)), None) : q \in Quoted}
    \cup {TableArgs(None, Some(Identifier("d", FALSE)), None, None)}

\* A table reference as written, or with an alias and a comment attached.
Plain == [alias |-> None, comments |-> <<>>]
Aliased == [alias |-> Some(Identifier("a", FALSE)), comments |-> <<"c">>]
Decorations == {Plain, Aliased}

Decorate(a, dec) == [args |-> [a EXCEPT !.alias = dec.alias],
                     comments |-> dec.comments]

\* Every table reference of the corpus.
TableForms ==
    {Decorate(a, dec) : a \in QualifiedTables \cup BareTables,
                        dec \in Decorations}

\* The references that stand beside the one under study: d, d.t and
\* `c`.`d`.`t` AS a /* c */.
ContextForms ==
    {Decorate(TableArgs(None, None, Some(Identifier("d", FALSE)), None), Plain),
     Decorate(TableArgs(None, Some(Identifier("d", FALSE)),
                        Some(Identifier("t", FALSE)), None), Plain),
     Decorate(TableArgs(Some(Identifier("c", TRUE)), Some(Identifier("d", TRUE)),
                        Some(Identifier("t", TRUE)), None), Aliased)}

Form(node) == [args |-> node.args, comments |-> node.comments]

\* One table of a tree ranges over every form, the others over ContextForms.
TableNodes(t, p) ==
    {[kind |-> "Table", parent |-> p, args |-> f.args, comments |-> f.comments] :
        f \in IF \E j \in DOMAIN t : /\ t[j].kind = "Table"
                                     /\ Form(t[j]) \notin ContextForms
              THEN ContextForms ELSE TableForms}

\* A column whose qualifier is the text of a database and of a bare table.
ColumnNode(p) ==
    [kind |-> "Column", parent |-> p,
     args |-> [this |-> Some(Identifier("id", FALSE)),
               table |-> Some(Identifier("d", FALSE))],
     comments |-> <<>>]

SelectNode(p) == [kind |-> "Select", parent |-> p,
                  args |-> [distinct |-> FALSE], comments |-> <<>>]

JoinNode(p) == [kind |-> "Join", parent |-> p,
                args |-> [side |-> "LEFT"], comments |-> <<>>]

RECURSIVE IsAncestor(_, _, _)
\* node a is a proper ancestor of node i in tree t
IsAncestor(t, a, i) ==
    IF i = 0 \/ t[i].parent = 0 THEN FALSE
    ELSE t[i].parent = a \/ IsAncestor(t, a, t[i].parent)

Children(t, p, kind) == {j \in DOMAIN t : t[j].parent = p /\ t[j].kind = kind}

\* The nodes the next node of a pre-order listing can hang under.
OpenNodes(t) == {p \in DOMAIN t : p = Len(t) \/ IsAncestor(t, p, Len(t))}

\* What the grammar lets follow t: a Select has one FROM table, columns,
\* joins and subqueries; a Join has one table and its ON columns; a Table
\* carries the joins nested under it.
NextNodes(t) ==
    UNION {
      CASE t[p].kind = "Select" ->
             (IF Children(t, p, "Table") = {} /\ Children(t, p, "Join") = {}
              THEN TableNodes(t, p) ELSE {})
             \cup {ColumnNode(p), SelectNode(p), JoinNode(p)}
        [] t[p].kind = "Join" ->
             IF Children(t, p, "Table") = {} THEN TableNodes(t, p)
             ELSE {ColumnNode(p)}
        [] t[p].kind = "Table" -> {JoinNode(p)}
        [] OTHER -> {}
      : p \in OpenNodes(t)}

RECURSIVE TreesOfLen(_)
TreesOfLen(n) ==
    IF n = 1 THEN {<<SelectNode(0)>>}
    ELSE UNION {{Append(t, node) : node \in NextNodes(t)} :
                   t \in TreesOfLen(n - 1)}

\* A parsed statement is complete: every Join has its table.
Complete(t) ==
    \A j \in DOMAIN t : t[j].kind = "Join" => Children(t, j, "Table") # {}

Trees == {t \in UNION {TreesOfLen(n) : n \in 1..MaxNodes} : Complete(t)}

----------------------------------------------------------------------------
(* _process_table                                                          *)

\* Eligible with the test of db left out.
EligibleNameOnly(table) == ~(table.args.this = None)

\* Eligible that remembers the first call: a rewriter that has served a call
\* takes every table for one it has already handled.
EligibleOnFirstCall(table) ==
    ~used /\ ~(table.args.db = None \/ table.args.this = None)

\* `if db is None or name is None: return table` fails
Eligible(table) == ~(table.args.db = None \/ table.args.this = None)

\* OrigValues with an absent catalog passed as the empty string.
OrigValuesEmptyCatalog(table) ==
    <<IF table.args.catalog # None THEN Some(table.args.catalog[1].this)
      ELSE Some(""),
      NameOf(table.args.db), NameOf(table.args.this)>>

\* orig_catalog, orig_db, orig_name
OrigValues(table) ==
    <<NameOf(table.args.catalog), NameOf(table.args.db), NameOf(table.args.this)>>

\* CatalogQuoted with a new catalog quoted as the db is.
CatalogQuotedAsDb(table) ==
    IF table.args.catalog # None THEN table.args.catalog[1].quoted
    ELSE table.args.db[1].quoted

\* `catalog.quoted if catalog else False`
CatalogQuoted(table) ==
    IF table.args.catalog # None THEN table.args.catalog[1].quoted ELSE FALSE

\* NewArgs with the new name quoted as the db is.
NewArgsNameQuotedAsDb(table, new) ==
    LET a0 == table.args
        a1 == IF new[1] # None
              THEN [a0 EXCEPT !.catalog =
                       Some(Identifier(new[1][1], CatalogQuoted(table)))]
              ELSE a0
        a2 == IF new[2] # None
              THEN [a1 EXCEPT !.db = Some(Identifier(new[2][1], a0.db[1].quoted))]
              ELSE a1
    IN  IF new[3] # None
        THEN [a2 EXCEPT !.this = Some(Identifier(new[3][1], a0.db[1].quoted))]
        ELSE a2

\* NewArgs built from the handler's triple alone: a slot the handler left
\* absent is absent in the new table.
NewArgsFromTriple(table, new) ==
    LET a0 == table.args
    IN  [a0 EXCEPT
           !.catalog = IF new[1] # None
                       THEN Some(Identifier(new[1][1], CatalogQuoted(table)))
                       ELSE None,
           !.db = IF new[2] # None
                  THEN Some(Identifier(new[2][1], a0.db[1].quoted))
                  ELSE a0.db,
           !.this = IF new[3] # None
                    THEN Some(Identifier(new[3][1], a0.this[1].quoted))
                    ELSE a0.this]

\* new_args: a copy of table.args with the slots the handler named replaced
NewArgs(table, new) ==
    LET a0 == table.args
        a1 == IF new[1] # None
              THEN [a0 EXCEPT !.catalog =
                       Some(Identifier(new[1][1], CatalogQuoted(table)))]
              ELSE a0
        a2 == IF new[2] # None
              THEN [a1 EXCEPT !.db = Some(Identifier(new[2][1], a0.db[1].quoted))]
              ELSE a1
    IN  IF new[3] # None
        THEN [a2 EXCEPT !.this = Some(Identifier(new[3][1], a0.this[1].quoted))]
        ELSE a2

\* Table(**new_args): a fresh node that holds the args and nothing else
Table(args) == [kind |-> "Table", parent |-> 0, args |-> args, comments |-> <<>>]

----------------------------------------------------------------------------
(* replace                                                                 *)

ParseError(msg) == [type |-> "ParseError", msg |-> msg, cause |-> None]
TokenError(msg) == [type |-> "TokenError", msg |-> msg, cause |-> None]

\* What sqlglot.parse_one raises on text it cannot parse.
ParserErrors == {ParseError("Invalid expression"),
                 TokenError("Error tokenizing")}

\* The statements replace is called with, by what the parser makes of them.
Statements == {[ok |-> TRUE, tree |-> t, exc |-> None] : t \in Trees}
              \cup {[ok |-> FALSE, tree |-> <<>>, exc |-> Some(e)] :
                       e \in ParserErrors}

\* `except sqlglot.errors.ParseError as e: raise ValueError(...) from e`
\* around the whole body of replace; any other exception passes through.
Surface(exc) ==
    IF exc.type = "ParseError"
    THEN [type |-> "ValueError", msg |-> "Failed to parse SQL: " \o exc.msg,
          cause |-> Some(exc)]
    ELSE exc

Raises(exc) == [returned |-> FALSE, text |-> <<>>, exc |-> Some(exc)]
Returns(text) == [returned |-> TRUE, text |-> text, exc |-> None]

\* The identifier quote of the generator (the Spark dialect writes a
\* backtick, which a TLA+ string cannot hold).
Quote == "\""

IdentifierSql(ident) ==
    IF ident.quoted THEN Quote \o ident.this \o Quote ELSE ident.this

\* Generator output for one node
NodeSql(node) ==
    LET a == node.args
        comment == IF node.comments = <<>> THEN ""
                   ELSE " /* " \o node.comments[1] \o " */"
    IN  CASE node.kind = "Table" ->
               (IF a.catalog = None THEN "" ELSE IdentifierSql(a.catalog[1]) \o ".")
               \o (IF a.db = None THEN "" ELSE IdentifierSql(a.db[1]) \o ".")
               \o (IF a.this = None THEN "" ELSE IdentifierSql(a.this[1]))
               \o (IF a.alias = None THEN "" ELSE " AS " \o IdentifierSql(a.alias[1]))
               \o comment
          [] node.kind = "Column" ->
               IdentifierSql(a.table[1]) \o "." \o IdentifierSql(a.this[1])
          [] node.kind = "Join" -> a.side \o " JOIN"
          [] OTHER -> "SELECT"

\* expression.sql(dialect=Spark, normalize=True, pretty=True)
Sql(t) == [i \in DOMAIN t |-> [parent |-> t[i].parent, sql |-> NodeSql(t[i])]]

\* The nodes below node i.
Descendants(t, i) == {j \in DOMAIN t : IsAncestor(t, i, j)}

\* transform puts the node visit returned where the visited node was and
\* does not walk below a node that visit replaced.
AfterReplaced(t, i) == i + Cardinality(Descendants(t, i)) + 1

Put(t, i, node) == [t EXCEPT ![i] = [node EXCEPT !.parent = t[i].parent]]

\* __init__: self.handler = handler
Construct(h) == h

\* policy is the handler the rewriter was constructed with.
Init ==
    /\ policy \in Handlers
    /\ handler = Construct(policy)
    /\ used = FALSE
    /\ pc = "idle"
    /\ sql = None
    /\ parsed = <<>>
    /\ expression = <<>>
    /\ pos = 0
    /\ calls = <<>>
    /\ thrown = None
    /\ result = None

\* sqlglot.parse_one(sql, dialect=Spark) returns a tree
ParseOk ==
    /\ pc = "idle"
    /\ \E s \in Statements :
         /\ s.ok
         /\ sql' = Some(s)
         /\ parsed' = s.tree
         /\ expression' = s.tree
    /\ pos' = 1
    /\ pc' = "transform"
    /\ calls' = <<>>
    /\ UNCHANGED <<handler, policy, used, thrown, result>>

\* sqlglot.parse_one raises
ParseFail ==
    /\ pc = "idle"
    /\ \E s \in Statements :
         /\ ~s.ok
         /\ sql' = Some(s)
         /\ thrown' = Some([origin |-> "parser", exc |-> s.exc[1]])
         /\ result' = Some(Raises(Surface(s.exc[1])))
    /\ pc' = "failed"
    /\ calls' = <<>>
    /\ UNCHANGED <<handler, policy, used, parsed, expression, pos>>

Visiting == pc = "transform" /\ pos \in DOMAIN expression

\* visit: not a Table, `return node`
VisitOther ==
    /\ Visiting
    /\ expression[pos].kind # "Table"
    /\ pos' = pos + 1
    /\ UNCHANGED <<handler, policy, used, pc, sql, parsed, expression, calls,
                   thrown, result>>

\* visit: a Table that _process_table returns as it is
VisitSkip ==
    /\ Visiting
    /\ expression[pos].kind = "Table"
    /\ ~Eligible(expression[pos])
    /\ pos' = pos + 1
    /\ UNCHANGED <<handler, policy, used, pc, sql, parsed, expression, calls,
                   thrown, result>>

\* visit: a Table that _process_table rebuilds from the handler's triple
VisitReplace ==
    /\ Visiting
    /\ expression[pos].kind = "Table"
    /\ Eligible(expression[pos])
    /\ LET table == expression[pos]
           orig == OrigValues(table)
           got == CallHandler(handler, orig[1], orig[2], orig[3])
       IN  /\ ~got.raised
           /\ calls' = Append(calls, [node |-> pos, args |-> orig])
           /\ expression' = Put(expression, pos, Table(NewArgs(table, got.value)))
           /\ pos' = AfterReplaced(expression, pos)
    /\ UNCHANGED <<handler, policy, used, pc, sql, parsed, thrown, result>>

\* visit: the handler raises inside _process_table
VisitRaise ==
    /\ Visiting
    /\ expression[pos].kind = "Table"
    /\ Eligible(expression[pos])
    /\ LET table == expression[pos]
           orig == OrigValues(table)
           got == CallHandler(handler, orig[1], orig[2], orig[3])
       IN  /\ got.raised
           /\ calls' = Append(calls, [node |-> pos, args |-> orig])
           /\ thrown' = Some([origin |-> "handler",
                              exc |-> [got.exc EXCEPT !.cause = None]])
           /\ result' = Some(Raises(Surface([got.exc EXCEPT !.cause = None])))
    /\ pc' = "failed"
    /\ UNCHANGED <<handler, policy, used, sql, parsed, expression, pos>>

\* the walk is over: `return expression.sql(...)`
Render ==
    /\ pc = "transform"
    /\ pos > Len(expression)
    /\ result' = Some(Returns(Sql(expression)))
    /\ pc' = "done"
    /\ UNCHANGED <<handler, policy, used, sql, parsed, expression, pos, calls,
                   thrown>>

\* The caller has the outcome; the locals of the call are gone and the
\* rewriter is ready for the next call.
Return ==
    /\ pc \in {"done", "failed"}
    /\ pc' = "idle"
    /\ used' = TRUE
    /\ sql' = None
    /\ parsed' = <<>>
    /\ expression' = <<>>
    /\ pos' = 0
    /\ calls' = <<>>
    /\ thrown' = None
    /\ result' = None
    /\ UNCHANGED <<handler, policy>>

Next ==
    \/ ParseOk
    \/ ParseFail
    \/ VisitOther
    \/ VisitSkip
    \/ VisitReplace
    \/ VisitRaise
    \/ Render
    \/ Return

Spec == Init /\ [][Next]_vars

----------------------------------------------------------------------------
(* The vocabulary of the claims.                                           *)

Slots == {"catalog", "db", "this"}
Place(slot) == CASE slot = "catalog" -> 1 [] slot = "db" -> 2 [] OTHER -> 3

TextOf(ident) == IF ident = <<>> THEN <<>> ELSE <<ident[1].this>>

TableRefs(t) == {i \in DOMAIN t : t[i].kind = "Table"}
HasDbAndName(node) == node.args.db # <<>> /\ node.args.this # <<>>
QualifiedRefs(t) == {i \in TableRefs(t) : HasDbAndName(t[i])}
UnqualifiedRefs(t) == {i \in TableRefs(t) : ~HasDbAndName(t[i])}

\* What the policy the rewriter was constructed with answers for a node.
Answer(h, node) ==
    CallHandler(h, TextOf(node.args.catalog), TextOf(node.args.db),
                TextOf(node.args.this))

CallsFor(i) == {k \in DOMAIN calls : calls[k].node = i}

\* The policy was called for node i of the parsed tree and returned.
Rewritten(i) ==
    /\ i \in QualifiedRefs(parsed)
    /\ CallsFor(i) # {}
    /\ ~Answer(policy, parsed[i]).raised

Finished == pc \in {"done", "failed"}

\* C1: a table reference without a db or without a name is left as parsed
\* and the policy is never called for it.
C1_UnqualifiedUntouched ==
    \A i \in UnqualifiedRefs(parsed) :
        /\ expression[i] = parsed[i]
        /\ CallsFor(i) = {}

\* A finished replace with the database-renaming policy over a statement
\* that holds a bare reference d beside a rewritten reference of database d.
C1_Witness ==
    /\ pc = "done"
    /\ policy = "get_handler"
    /\ \E i \in UnqualifiedRefs(parsed), j \in QualifiedRefs(parsed) :
          /\ TextOf(parsed[i].args.this) = TextOf(parsed[j].args.db)
          /\ Rewritten(j)
          /\ expression[j] # parsed[j]

\* C2: a component that was in the input and that the policy names carries
\* the policy's text and the quoted flag that position had in the input.
C2_QuotingSticksToPosition ==
    \A i \in DOMAIN parsed : Rewritten(i) =>
        \A slot \in Slots :
            LET old == parsed[i].args[slot]
                new == Answer(policy, parsed[i]).value[Place(slot)]
            IN  (old # <<>> /\ new # <<>>) =>
                    expression[i].args[slot] =
                        <<[this |-> new[1], quoted |-> old[1].quoted]>>

\* A rewritten c.d.t whose three positions do not share one quoted flag and
\* whose catalog and db both got a new text.
C2_Witness ==
    /\ pc = "done"
    /\ \E i \in DOMAIN parsed :
          /\ Rewritten(i)
          /\ parsed[i].args.catalog # <<>>
          /\ parsed[i].args.catalog[1].quoted # parsed[i].args.db[1].quoted
          /\ parsed[i].args.db[1].quoted # parsed[i].args.this[1].quoted
          /\ expression[i].args.catalog[1].this # parsed[i].args.catalog[1].this
          /\ expression[i].args.db[1].this # parsed[i].args.db[1].this

C4_AddedCatalogUnquoted ==
    \A i \in DOMAIN parsed : Rewritten(i) =>
        LET new == Answer(policy, parsed[i]).value
        IN  (parsed[i].args.catalog = <<>> /\ new[1] # <<>>) =>
               /\ expression[i].args.catalog =
                      <<[this |-> new[1][1], quoted |-> FALSE]>>
               /\ expression[i].args.db # <<>>
               /\ expression[i].args.this # <<>>

\* A catalog has been added to a two-part reference whose db and name are
\* both quoted.
C4_Witness ==
    /\ pc = "done"
    /\ \E i \in DOMAIN parsed :
          /\ Rewritten(i)
          /\ parsed[i].args.catalog = <<>>
          /\ parsed[i].args.db[1].quoted
          /\ parsed[i].args.this[1].quoted
          /\ expression[i].args.catalog # <<>>

\* C5: the rendered tree differs from the parsed one only in the catalog,
\* db and name of the references that have a db and a name.
C5_OnlyIdentifierSlotsChange ==
    pc = "done" =>
        /\ Len(expression) = Len(parsed)
        /\ \A i \in DOMAIN parsed :
              IF i \in QualifiedRefs(parsed)
              THEN /\ expression[i].kind = parsed[i].kind
                   /\ expression[i].parent = parsed[i].parent
                   /\ expression[i].args.alias = parsed[i].args.alias
                   /\ expression[i].comments = parsed[i].comments
              ELSE expression[i] = parsed[i]

\* C6: whatever the parser raises, replace raises the error of its own that
\* wraps the parser's message, and the policy has not been called.
C6_ParserFailureWrapped ==
    (thrown # <<>> /\ thrown[1].origin = "parser") =>
        /\ pc = "failed"
        /\ calls = <<>>
        /\ result = <<[returned |-> FALSE, text |-> <<>>,
                       exc |-> <<[type |-> "ValueError",
                                  msg |-> "Failed to parse SQL: "
                                          \o thrown[1].exc.msg,
                                  cause |-> <<thrown[1].exc>>]>>]>>

\* C7: whatever the policy raises reaches the caller as it was raised.
C7_PolicyErrorUnmodified ==
    (thrown # <<>> /\ thrown[1].origin = "handler") =>
        /\ pc = "failed"
        /\ result = <<[returned |-> FALSE, text |-> <<>>,
                       exc |-> <<thrown[1].exc>>]>>

\* The outcome of replace on a rewriter fresh from its constructor: the
\* references the walk reaches are those under no rewritten reference; the
\* first of them for which the policy raises ends the call.
Reached(t, i) == \A a \in QualifiedRefs(t) : ~IsAncestor(t, a, i)
Targets(t) == {i \in QualifiedRefs(t) : Reached(t, i)}
Failing(h, t) == {i \in Targets(t) : Answer(h, t[i]).raised}
First(S) == CHOOSE i \in S : \A j \in S : i <= j

Rebuilt(h, node) ==
    LET new == Answer(h, node).value
    IN  [node EXCEPT
           !.comments = <<>>,
           !.args = [slot \in DOMAIN node.args |->
                       IF slot \in Slots /\ new[Place(slot)] # <<>>
                       THEN <<[this |-> new[Place(slot)][1],
                               quoted |-> IF node.args[slot] = <<>> THEN FALSE
                                          ELSE node.args[slot][1].quoted]>>
                       ELSE node.args[slot]]]

FreshOutcome(h, s) ==
    IF ~s.ok THEN Raises(Surface(s.exc[1]))
    ELSE IF Failing(h, s.tree) # {}
         THEN Raises(Surface(Answer(h, s.tree[First(Failing(h, s.tree))]).exc))
         ELSE Returns(Sql([i \in DOMAIN s.tree |->
                             IF i \in Targets(s.tree)
                             THEN Rebuilt(h, s.tree[i]) ELSE s.tree[i]]))

\* C8: the rewriter holds the policy it was constructed with, before, during
\* and after every call, and every call ends as it would on a fresh rewriter.
C8_CallsIndependent ==
    /\ handler = policy
    /\ Finished => result = <<FreshOutcome(policy, sql[1])>>

\* A call has finished on a rewriter that had served a call before, with
\* the policy called in it.
C8_Witness ==
    /\ used
    /\ pc = "done"
    /\ calls # <<>>
    /\ policy # "absent"

\* C9: in a replace that returns, the policy is called exactly once for each
\* reference with a db and a name, at any depth.
C9_EveryQualifiedRefOnce ==
    pc = "done" =>
        /\ \A i \in QualifiedRefs(parsed) : Cardinality(CallsFor(i)) = 1
        /\ \A k \in DOMAIN calls : calls[k].node \in QualifiedRefs(parsed)

\* C10: the policy gets the raw texts of the three components, an absent
\* catalog as None; references that differ only in quoting give the same
\* arguments.
C10_ArgumentsAreRawTexts ==
    /\ \A k \in DOMAIN calls :
          LET node == parsed[calls[k].node]
          IN  /\ calls[k].args = <<TextOf(node.args.catalog),
                                   TextOf(node.args.db), TextOf(node.args.this)>>
              /\ (calls[k].args[1] = <<>>) <=> (node.args.catalog = <<>>)
              /\ calls[k].args[1] # <<"">>
    /\ \A k1, k2 \in DOMAIN calls :
          (\A slot \in Slots :
              TextOf(parsed[calls[k1].node].args[slot]) =
              TextOf(parsed[calls[k2].node].args[slot]))
          => calls[k1].args = calls[k2].args

\* The policy has been called for two references with the same texts and
\* different quoting, and for one without a catalog.
C10_Witness ==
    /\ \E k1, k2 \in DOMAIN calls :
          /\ calls[k1].node # calls[k2].node
          /\ calls[k1].args = calls[k2].args
          /\ parsed[calls[k1].node].args # parsed[calls[k2].node].args
    /\ \E k \in DOMAIN calls : parsed[calls[k].node].args.catalog = <<>>
====
